---- MODULE Spec2Model ----
(***************************************************************************)
(* CropWise web client: the API access layer (lib/api.js), the token kept  *)
(* in localStorage, and the views that call the API (App, Navbar,          *)
(* LoginSignup, Calendar).                                                 *)
(*                                                                         *)
(* Two specifications share the variables:                                 *)
(*   SpecFetch  one api.* call at a time, from the request it builds to    *)
(*              the promise fetchJSON settles, over every outcome of the   *)
(*              network and of the timeout timer;                          *)
(*   Spec       the views: every handler, and the continuation of every    *)
(*              awaited call, interleaved the way the event loop allows.   *)
(*                                                                         *)
(* Text the user types (queries, place names) is a sequence of one-        *)
(* character strings, so that trim() and length are computed; messages are *)
(* TLA+ strings, concatenated with \o.                                     *)
(***************************************************************************)
EXTENDS Integers, Sequences, FiniteSets, Bags, TLC

VARIABLES
    localStorage,   \* browser storage: a function from keys to strings
    call,           \* SpecFetch: the api call under observation
    route,          \* current route ("boot" before the app is mounted)
    navHasToken,    \* Navbar: the token was truthy at its last render
    tab,            \* LoginSignup state
    authMsg,        \* LoginSignup state msg
    recentPlaces,   \* Calendar state
    query,          \* Calendar state
    matches,        \* Calendar state
    selectedPlace,  \* Calendar state
    season,         \* Calendar state
    live,           \* Calendar state: <<>> is null, <<r>> a Live Crop Result
    loading,        \* Calendar state
    msg,            \* Calendar state
    inflight        \* the api calls awaited: a bag (answers come in any order)

vars == <<localStorage, call, route, navHasToken, tab, authMsg, recentPlaces,
          query, matches, selectedPlace, season, live, loading, msg, inflight>>

uiVars == <<route, navHasToken, tab, authMsg, recentPlaces, query, matches,
            selectedPlace, season, live, loading, msg, inflight>>

calendarVars == <<recentPlaces, query, matches, selectedPlace, season, live,
                  loading, msg>>

-----------------------------------------------------------------------------
(* Bounds and value sets                                                   *)

\* At most this many api calls are in flight at once.
MaxInflight == 2

\* Access tokens the backend issues (opaque, non-empty strings).
Tokens == {"t1", "t2"}

\* getItem's result for a missing key.
null == "<null>"

Guntur == <<"G", "u">>
Pune == <<"P", "u">>
Places == {Guntur, Pune}

\* Seasons chosen and detected: two of Calendar's three season buttons (the
\* Summer button differs from the Rabi button in the name only).
Seasons == {"Kharif", "Rabi"}

\* What an edit can leave in the search field: one text too short once trimmed,
\* and the two places.
Queries == {<<" ", "G", " ">>, <<"G", "u">>, <<"P", "u">>}

\* Contents of the username and password fields.
username == <<"u">>
password == <<"p">>

\* HTTP statuses the backend answers with.
Statuses == {200, 204, 401, 500}

-----------------------------------------------------------------------------
(* localStorage                                                            *)

getItem(k) == IF k \in DOMAIN localStorage THEN localStorage[k] ELSE null

setItem(k, v) ==
    [x \in (DOMAIN localStorage) \cup {k} |-> IF x = k THEN v ELSE localStorage[x]]

removeItem(k) ==
    [x \in (DOMAIN localStorage) \ {k} |-> localStorage[x]]

\* JavaScript truthiness of a string-or-null.
Truthy(s) == s /= null /\ s /= ""

\* What localStorage holds when the page is loaded: nothing, or the token of an
\* earlier session.
Stores == {[x \in {} |-> ""], [x \in {"token"} |-> "t1"]}

-----------------------------------------------------------------------------
(* lib/api.js                                                              *)

NoHeaders == [x \in {} |-> ""]

\* { ...a, ...b }
Spread(a, b) ==
    [x \in (DOMAIN a) \cup (DOMAIN b) |-> IF x \in DOMAIN b THEN b[x] ELSE a[x]]

authHeaders ==
    LET token == getItem("token")
    IN  IF Truthy(token) THEN [x \in {"Authorization"} |-> "Bearer " \o token]
        ELSE NoHeaders

ContentType(t) == [x \in {"Content-Type"} |-> t]

Ops == {"signup", "login", "me", "states", "geocode", "seasonNow", "liveCrops",
        "logEvent"}

\* The request an operation of api hands to fetchJSON: (url, opts).  a and b are
\* the operation's arguments; params and body hold the values before
\* encodeURIComponent / URLSearchParams / JSON.stringify encode them.
signup(a, b) ==
    [method |-> "POST", path |-> "/auth/signup",
     headers |-> ContentType("application/json"),
     params |-> <<>>, body |-> <<"json", a, b>>]

login(a, b) ==
    [method |-> "POST", path |-> "/auth/login",
     headers |-> ContentType("application/x-www-form-urlencoded"),
     params |-> <<>>, body |-> <<"form", a, b>>]

me ==
    [method |-> "GET", path |-> "/me",
     headers |-> Spread(NoHeaders, authHeaders),
     params |-> <<>>, body |-> <<>>]

states ==
    [method |-> "GET", path |-> "/states", headers |-> NoHeaders,
     params |-> <<>>, body |-> <<>>]

geocode(q) ==
    [method |-> "GET", path |-> "/geocode", headers |-> NoHeaders,
     params |-> <<<<"query", q>>>>, body |-> <<>>]

seasonNow(state) ==
    [method |-> "GET", path |-> "/season_now", headers |-> NoHeaders,
     params |-> <<<<"state", state>>>>, body |-> <<>>]

liveCrops(state, s) ==
    [method |-> "GET", path |-> "/live_crops", headers |-> NoHeaders,
     params |-> <<<<"state", state>>, <<"season", s>>>>, body |-> <<>>]

\* Mutant: logEvent without authHeaders().
logEventNoAuth(event_name, meta) ==
    [method |-> "POST", path |-> "/analytics/event",
     headers |-> ContentType("application/json"),
     params |-> <<>>, body |-> <<"json", event_name, meta>>]

logEvent(event_name, meta) ==
    [method |-> "POST", path |-> "/analytics/event",
     headers |-> Spread(ContentType("application/json"), authHeaders),
     params |-> <<>>, body |-> <<"json", event_name, meta>>]

api(op, a, b) ==
    CASE op = "signup"    -> signup(a, b)
      [] op = "login"     -> login(a, b)
      [] op = "me"        -> me
      [] op = "states"    -> states
      [] op = "geocode"   -> geocode(a)
      [] op = "seasonNow" -> seasonNow(a)
      [] op = "liveCrops" -> liveCrops(a, b)
      [] op = "logEvent"  -> logEvent(a, b)

\* What the network and the timer do to one fetchJSON call:
\*   fetch   "response": fetch() resolves with a response of this status;
\*           "neterr":   fetch() rejects with a TypeError carrying errmsg;
\*           "abort":    the timer fires while fetch() is pending;
\*   read    how reading the body (res.text() or res.json()) ends:
\*           "ok", "neterr" (the connection fails, errmsg), or "abort" (the
\*           timer fires while the body is being read);
\*   text    the body the server sends; valid: it parses as JSON, to value.
Env(f, st, txt, valid, value, rd, em) ==
    [fetch |-> f, status |-> st, text |-> txt, valid |-> valid, value |-> value,
     read |-> rd, errmsg |-> em]

NoValue == <<>>

Fulfilled(v) == [state |-> "fulfilled", value |-> v, name |-> "", message |-> ""]

\* throw new Error(message)
Rejected(m) == [state |-> "rejected", value |-> NoValue, name |-> "Error", message |-> m]

Err(n, m) == [name |-> n, message |-> m]

AbortError == Err("AbortError", "The user aborted a request.")

\* res.ok
Ok(status) == status >= 200 /\ status <= 299

\* a || b on strings
OrElse(a, b) == IF a /= "" THEN a ELSE b

\* The catch block of fetchJSON (api.js 20-23).
Catch(err) ==
    IF err.name = "AbortError" THEN Rejected("Request timed out")
    ELSE Rejected(OrElse(err.message, "Network error"))

\* Mutant: the body text is dropped.
TextDropped(env) == ""

\* res.text().catch(() => "")
TextOrEmpty(env) == IF env.read = "ok" THEN env.text ELSE ""

\* The promise fetchJSON(url, opts) settles to under env (api.js 9-27).
fetchJSON(env) ==
    CASE env.fetch = "abort"  -> Catch(AbortError)
      [] env.fetch = "neterr" -> Catch(Err("TypeError", env.errmsg))
      [] OTHER ->
            IF ~Ok(env.status)
            THEN Catch(Err("Error",
                           OrElse(TextOrEmpty(env), "HTTP " \o ToString(env.status))))
            ELSE CASE env.read = "abort"  -> Catch(AbortError)
                   [] env.read = "neterr" -> Catch(Err("TypeError", env.errmsg))
                   [] ~env.valid          -> Catch(Err("SyntaxError", "Unexpected end of JSON input"))
                   [] OTHER               -> Fulfilled(env.value)

-----------------------------------------------------------------------------
(* SpecFetch: one api call, from request to settled promise                *)

ErrMsgs == {"Failed to fetch", ""}

\* Bodies a server sends: empty, plain text, a JSON document.
Bodies ==
    {[text |-> "", valid |-> FALSE, value |-> NoValue],
     [text |-> "detail", valid |-> FALSE, value |-> NoValue],
     [text |-> "{}", valid |-> TRUE, value |-> <<"{}">>]}

Envs ==
    {Env("abort", 0, "", FALSE, NoValue, "ok", "")}
    \cup {Env("neterr", 0, "", FALSE, NoValue, "ok", em) : em \in ErrMsgs}
    \cup {Env("response", st, b.text, b.valid, b.value, "ok", "") :
            st \in Statuses, b \in Bodies}
    \cup {Env("response", st, b.text, b.valid, b.value, "abort", "") :
            st \in Statuses, b \in Bodies}
    \cup {Env("response", st, b.text, b.valid, b.value, "neterr", em) :
            st \in Statuses, b \in Bodies, em \in ErrMsgs}

NoEnv == Env("none", 0, "", FALSE, NoValue, "ok", "")

NoResult == [state |-> "pending", value |-> NoValue, name |-> "", message |-> ""]

NoRequest == [method |-> "", path |-> "", headers |-> NoHeaders, params |-> <<>>, body |-> <<>>]

IdleCall ==
    [phase |-> "idle", op |-> "", req |-> NoRequest, tokenAtCall |-> null,
     env |-> NoEnv, result |-> NoResult]

\* Arguments the views pass to each operation.
OpArgs(op) ==
    CASE op \in {"signup", "login"} -> {<<username, password>>}
      [] op \in {"me", "states"}    -> {<<NoValue, NoValue>>}
      [] op = "geocode"             -> {<<p, NoValue>> : p \in Places}
      [] op = "seasonNow"           -> {<<p, NoValue>> : p \in Places}
      [] op = "liveCrops"           -> {<<p, s>> : p \in Places, s \in Seasons}
      [] op = "logEvent"            -> {<<"open_calendar", <<>>>>, <<"login", <<username>>>>}

\* A view calls api[op](a, b): the request is built, and the token read, now.
ApiCall(op, a, b) ==
    /\ call.phase \in {"idle", "settled"}
    /\ call' = [phase |-> "pending", op |-> op, req |-> api(op, a, b),
                tokenAtCall |-> getItem("token"), env |-> NoEnv, result |-> NoResult]
    /\ UNCHANGED <<localStorage, uiVars>>

\* The call's promise settles.
ApiSettle(env) ==
    /\ call.phase = "pending"
    /\ call' = [call EXCEPT !.phase = "settled", !.env = env, !.result = fetchJSON(env)]
    /\ UNCHANGED <<localStorage, uiVars>>

\* Storage changes between or during calls (doAuth stores, logout removes).
StoreToken(t) ==
    /\ localStorage' = setItem("token", t)
    /\ UNCHANGED <<call, uiVars>>

DropToken ==
    /\ "token" \in DOMAIN localStorage
    /\ localStorage' = removeItem("token")
    /\ UNCHANGED <<call, uiVars>>

-----------------------------------------------------------------------------
(* The views                                                               *)

Routes == {"/", "/about", "/contact", "/calendar", "/auth"}

NoCtx == [place |-> <<>>, season |-> "", kind |-> ""]

\* One awaited api call: the request sent, the continuation that awaits it
\* (cont), the values its closure holds (ctx), whether the component that
\* awaits it has been unmounted (orphan), and, as history, the UI action it
\* belongs to (origin) and its ordinal among that action's requests (n).
Pending(cont, req, ctx, origin, n) ==
    [cont |-> cont, req |-> req, ctx |-> ctx, orphan |-> FALSE, origin |-> origin, n |-> n]

Remove(B, r) == B (-) SetToBag({r})

Add(B, r) == B (+) SetToBag({r})

Count(B) == BagCardinality(B)

\* Unmounting a component orphans the continuations that set its state.
CalendarConts == {"states", "open_log", "geocode", "seasonNow", "auto_log",
                  "liveCrops", "live_log"}
AuthConts == {"auth", "auth_log"}

Orphaned(r, conts) == IF r.cont \in conts THEN [r EXCEPT !.orphan = TRUE] ELSE r

Orphan(B, conts) ==
    LET sources(x) == {e \in DOMAIN B : Orphaned(e, conts) = x}
        copies(x) == LET S == sources(x)
                         alive == {e \in S : ~e.orphan}
                         gone == {e \in S : e.orphan}
                     IN  (IF alive = {} THEN 0 ELSE B[CHOOSE e \in alive : TRUE])
                         + (IF gone = {} THEN 0 ELSE B[CHOOSE e \in gone : TRUE])
    IN  [x \in {Orphaned(e, conts) : e \in DOMAIN B} |-> copies(x)]

\* Responses of the backend (not part of this repository): deterministic per
\* request where the views only display them.
StatesList == <<[name |-> Guntur], [name |-> Pune]>>

Geocode(q) ==
    IF q = Guntur THEN <<[name |-> Guntur]>>
    ELSE IF q = Pune THEN <<[name |-> Pune]>>
    ELSE <<>>

LiveResult(state, s) == [state |-> state, season |-> s]

JsonEnv(v) == Env("response", 200, "json", TRUE, v, "ok", "")

\* How a call fails in Spec: the timer fires while fetch() is pending (SpecFetch
\* covers the other ways; the views treat every rejection alike).
FailEnvs == {Env("abort", 0, "", FALSE, NoValue, "ok", "")}

Failures == {fetchJSON(e) : e \in FailEnvs}

RECURSIVE TrimStart(_)
TrimStart(s) == IF s /= <<>> /\ Head(s) = " " THEN TrimStart(Tail(s)) ELSE s

RECURSIVE TrimEnd(_)
TrimEnd(s) ==
    IF s /= <<>> /\ s[Len(s)] = " " THEN TrimEnd(SubSeq(s, 1, Len(s) - 1)) ELSE s

\* String.prototype.trim
trim(s) == TrimEnd(TrimStart(s))

\* Calendar's useState initial values, and the mount effects' setLive(null), setMsg("").
CalendarInitial ==
    /\ recentPlaces = <<>>
    /\ query = <<>>
    /\ matches = <<>>
    /\ selectedPlace = <<>>
    /\ season = ""
    /\ live = <<>>
    /\ loading = FALSE
    /\ msg = ""

CalendarReset ==
    /\ recentPlaces' = <<>>
    /\ query' = <<>>
    /\ matches' = <<>>
    /\ selectedPlace' = <<>>
    /\ season' = ""
    /\ live' = <<>>
    /\ loading' = FALSE
    /\ msg' = ""

\* Calendar's mount effect (Calendar.jsx 15-18): two calls, neither awaited.
MountCalendar ==
    SetToBag({Pending("states", states, NoCtx, "open_calendar", 1),
              Pending("open_log", logEvent("open_calendar", <<>>), NoCtx, "open_calendar", 2)})

\* App's mount effect (App.jsx 14-19).
MountApp ==
    IF Truthy(getItem("token")) THEN SetToBag({Pending("me", me, NoCtx, "startup", 1)})
    ELSE EmptyBag

\* The route changes to r (react-router renders the route's element; App and
\* Navbar re-render): the components left are unmounted, the one entered is
\* mounted with its initial state.  s is the awaited calls before the change.
Render(r, s) ==
    /\ route' = r
    /\ navHasToken' = Truthy(getItem("token")')
    /\ IF r = "/auth" /\ route = "/auth"
       THEN UNCHANGED <<tab, authMsg>>
       ELSE tab' = "login" /\ authMsg' = ""
    /\ IF r = "/calendar" /\ route = "/calendar"
       THEN UNCHANGED calendarVars
       ELSE CalendarReset
    /\ inflight' =
         LET left == IF route = "/calendar" /\ r /= "/calendar" THEN Orphan(s, CalendarConts)
                     ELSE IF route = "/auth" /\ r /= "/auth" THEN Orphan(s, AuthConts)
                     ELSE s
         IN  IF r = "/calendar" /\ route /= "/calendar" THEN left (+) MountCalendar ELSE left

\* Requests a change of route to r adds.
Mounts(r) == IF r = "/calendar" /\ route /= "/calendar" THEN 2 ELSE 0

Init ==
    /\ localStorage \in Stores
    /\ call = IdleCall
    /\ route = "boot"
    /\ navHasToken = FALSE
    /\ tab = "login"
    /\ authMsg = ""
    /\ CalendarInitial
    /\ inflight = EmptyBag

\* The page is loaded at url: the route's element mounts, then App (effects run
\* child first).
Startup(url) ==
    /\ route = "boot"
    /\ route' = url
    /\ navHasToken' = Truthy(getItem("token"))
    /\ inflight' = (IF url = "/calendar" THEN MountCalendar ELSE EmptyBag) (+) MountApp
    /\ UNCHANGED <<localStorage, call, tab, authMsg, calendarVars>>

\* A Navbar link.  "Login / Signup" is rendered only without a token.
Go(r) ==
    /\ route /= "boot"
    /\ r = "/auth" => ~navHasToken
    /\ Count(inflight) + Mounts(r) <= MaxInflight
    /\ UNCHANGED <<localStorage, call>>
    /\ Render(r, inflight)

\* Navbar.logout (Navbar 8-11); the button is rendered only with a token.
logout ==
    /\ route /= "boot"
    /\ navHasToken
    /\ localStorage' = removeItem("token")
    /\ UNCHANGED call
    /\ Render("/", inflight)

\* api.me() of App's effect resolves: nothing is chained on success.
MeOk(r) ==
    /\ r.cont = "me"
    /\ inflight' = Remove(inflight, r)
    /\ UNCHANGED <<localStorage, call, route, navHasToken, tab, authMsg, calendarVars>>

\* .catch(() => localStorage.removeItem("token"))
MeFail(r) ==
    /\ r.cont = "me"
    /\ localStorage' = removeItem("token")
    /\ inflight' = Remove(inflight, r)
    /\ UNCHANGED <<call, route, navHasToken, tab, authMsg, calendarVars>>

-----------------------------------------------------------------------------
(* LoginSignup                                                             *)

setTab(t) ==
    /\ route = "/auth"
    /\ t /= tab
    /\ tab' = t
    /\ UNCHANGED <<localStorage, call, route, navHasToken, authMsg, calendarVars, inflight>>

\* doAuth(kind) up to its first await; the button shown is the tab's.
doAuth(kind) ==
    /\ route = "/auth"
    /\ kind = tab
    /\ Count(inflight) < MaxInflight
    /\ authMsg' = ""
    /\ inflight' = Add(inflight,
         Pending("auth", api(kind, username, password),
                 [NoCtx EXCEPT !.kind = kind], kind, 1))
    /\ UNCHANGED <<localStorage, call, route, navHasToken, tab, calendarVars>>

\* String(e) of an Error
StringOfError(f) == IF f.message = "" THEN f.name ELSE f.name \o ": " \o f.message

\* String(e.message || e)
MessageOf(f) == OrElse(f.message, StringOfError(f))

\* login/signup resolved with {access_token: t}: the token is stored and the
\* event is logged (doAuth 17-18); logEvent reads the token just stored.
AuthOk(r, t) ==
    /\ r.cont = "auth"
    /\ localStorage' = setItem("token", fetchJSON(JsonEnv([access_token |-> t])).value.access_token)
    /\ \E kind \in {"login", "signup"} :
         /\ kind = r.ctx.kind
         /\ inflight' = Add(Remove(inflight, r),
              [Pending("auth_log", logEvent(kind, <<username>>)', r.ctx, r.origin, r.n + 1)
                 EXCEPT !.orphan = r.orphan])
    /\ UNCHANGED <<call, route, navHasToken, tab, authMsg, calendarVars>>

\* Mutant: a rejected login or signup also removes the stored token.
AuthFailClearsToken(r, f) ==
    /\ r.cont = "auth"
    /\ authMsg' = IF r.orphan THEN authMsg ELSE StringOfError(f)
    /\ localStorage' = removeItem("token")
    /\ inflight' = Remove(inflight, r)
    /\ UNCHANGED <<call, route, navHasToken, tab, calendarVars>>

\* login/signup rejected: catch (e) { setMsg(String(e)) }
AuthFail(r, f) ==
    /\ r.cont = "auth"
    /\ authMsg' = IF r.orphan THEN authMsg ELSE StringOfError(f)
    /\ inflight' = Remove(inflight, r)
    /\ UNCHANGED <<localStorage, call, route, navHasToken, tab, calendarVars>>

\* logEvent of doAuth resolved: navigate("/calendar")
AuthLogOk(r) ==
    /\ r.cont = "auth_log"
    /\ Count(inflight) - 1 + Mounts("/calendar") <= MaxInflight
    /\ UNCHANGED <<localStorage, call>>
    /\ Render("/calendar", Remove(inflight, r))

\* logEvent of doAuth rejected: the same catch block
AuthLogFail(r, f) ==
    /\ r.cont = "auth_log"
    /\ authMsg' = IF r.orphan THEN authMsg ELSE StringOfError(f)
    /\ inflight' = Remove(inflight, r)
    /\ UNCHANGED <<localStorage, call, route, navHasToken, tab, calendarVars>>

-----------------------------------------------------------------------------
(* Calendar                                                                *)

\* api.states().then(setRecentPlaces)
StatesOk(r) ==
    /\ r.cont = "states"
    /\ recentPlaces' = IF r.orphan THEN recentPlaces ELSE fetchJSON(JsonEnv(StatesList)).value
    /\ inflight' = Remove(inflight, r)
    /\ UNCHANGED <<localStorage, call, route, navHasToken, tab, authMsg, query, matches,
                   selectedPlace, season, live, loading, msg>>

\* .catch(()=>{})
StatesFail(r) ==
    /\ r.cont = "states"
    /\ inflight' = Remove(inflight, r)
    /\ UNCHANGED <<localStorage, call, route, navHasToken, tab, authMsg, calendarVars>>

\* api.logEvent("open_calendar", {}) settles either way: nothing awaits it.
OpenLogSettled(r) ==
    /\ r.cont = "open_log"
    /\ inflight' = Remove(inflight, r)
    /\ UNCHANGED <<localStorage, call, route, navHasToken, tab, authMsg, calendarVars>>

\* The effect on [selectedPlace, season] (Calendar.jsx 21-24) runs when either
\* changed: it overrides what the handler set for live and msg.
EffectLive(changed, l) == IF changed THEN <<>> ELSE l
EffectMsg(changed, m) == IF changed THEN "" ELSE m

\* Mutant: every search is also logged.
searchPlacesLogged(q) ==
    /\ route = "/calendar"
    /\ q /= query
    /\ query' = q
    /\ IF Len(trim(q)) < 2
       THEN /\ matches' = <<>>
            /\ UNCHANGED inflight
       ELSE /\ Count(inflight) < MaxInflight
            /\ inflight' = Add(Add(inflight,
                 Pending("geocode", geocode(trim(q)), NoCtx, "search", 1)),
                 Pending("open_log", logEvent("search", <<trim(q)>>), NoCtx, "search", 2))
            /\ UNCHANGED matches
    /\ UNCHANGED <<localStorage, call, route, navHasToken, tab, authMsg, recentPlaces,
                   selectedPlace, season, live, loading, msg>>

\* searchPlaces(q) up to its first await; onChange fires on an edit.
searchPlaces(q) ==
    /\ route = "/calendar"
    /\ q /= query
    /\ query' = q
    /\ IF Len(trim(q)) < 2
       THEN /\ matches' = <<>>
            /\ UNCHANGED inflight
       ELSE /\ Count(inflight) < MaxInflight
            /\ inflight' = Add(inflight,
                 Pending("geocode", geocode(trim(q)), NoCtx, "search", 1))
            /\ UNCHANGED matches
    /\ UNCHANGED <<localStorage, call, route, navHasToken, tab, authMsg, recentPlaces,
                   selectedPlace, season, live, loading, msg>>

\* The query a geocode request carries.
QueryOf(req) == req.params[1][2]

\* Mutant: a response is dropped unless it answers the query now in the field.
GeocodeOkLatestWins(r) ==
    /\ r.cont = "geocode"
    /\ matches' = IF r.orphan \/ QueryOf(r.req) /= trim(query) THEN matches
                  ELSE fetchJSON(JsonEnv(Geocode(QueryOf(r.req)))).value
    /\ inflight' = Remove(inflight, r)
    /\ UNCHANGED <<localStorage, call, route, navHasToken, tab, authMsg, recentPlaces,
                   query, selectedPlace, season, live, loading, msg>>

\* geocode resolved: setMatches(res)
GeocodeOk(r) ==
    /\ r.cont = "geocode"
    /\ matches' = IF r.orphan THEN matches
                  ELSE fetchJSON(JsonEnv(Geocode(QueryOf(r.req)))).value
    /\ inflight' = Remove(inflight, r)
    /\ UNCHANGED <<localStorage, call, route, navHasToken, tab, authMsg, recentPlaces,
                   query, selectedPlace, season, live, loading, msg>>

\* geocode rejected: setMatches([]); setMsg(String(e.message || e))
GeocodeFail(r, f) ==
    /\ r.cont = "geocode"
    /\ matches' = IF r.orphan THEN matches ELSE <<>>
    /\ msg' = IF r.orphan THEN msg ELSE MessageOf(f)
    /\ inflight' = Remove(inflight, r)
    /\ UNCHANGED <<localStorage, call, route, navHasToken, tab, authMsg, recentPlaces,
                   query, selectedPlace, season, live, loading>>

\* Click on the k-th match (Calendar.jsx 78).
pickMatch(k) ==
    /\ route = "/calendar"
    /\ k \in 1..Len(matches)
    /\ selectedPlace' = matches[k].name
    /\ query' = matches[k].name
    /\ matches' = <<>>
    /\ live' = EffectLive(selectedPlace' /= selectedPlace, live)
    /\ msg' = EffectMsg(selectedPlace' /= selectedPlace, msg)
    /\ UNCHANGED <<localStorage, call, route, navHasToken, tab, authMsg, recentPlaces,
                   season, loading, inflight>>

\* The options of the Recent Places select, and the one it shows.
RecentOptions == {<<>>} \cup {recentPlaces[k].name : k \in 1..Len(recentPlaces)}
RecentShown == IF selectedPlace \in RecentOptions THEN selectedPlace ELSE <<>>

\* onChange of the select (Calendar.jsx 88).
selectRecent(v) ==
    /\ route = "/calendar"
    /\ v \in RecentOptions
    /\ v /= RecentShown
    /\ selectedPlace' = v
    /\ live' = EffectLive(v /= selectedPlace, live)
    /\ msg' = EffectMsg(v /= selectedPlace, msg)
    /\ UNCHANGED <<localStorage, call, route, navHasToken, tab, authMsg, recentPlaces,
                   query, matches, season, loading, inflight>>

\* A season button (Calendar.jsx 96-98).
setSeason(s) ==
    /\ route = "/calendar"
    /\ season' = s
    /\ live' = EffectLive(s /= season, live)
    /\ msg' = EffectMsg(s /= season, msg)
    /\ UNCHANGED <<localStorage, call, route, navHasToken, tab, authMsg, recentPlaces,
                   query, matches, selectedPlace, loading, inflight>>

\* autoSeason() up to its first await.
autoSeason ==
    /\ route = "/calendar"
    /\ IF selectedPlace = <<>>
       THEN /\ msg' = "Select a place first."
            /\ UNCHANGED <<live, loading, inflight>>
       ELSE /\ Count(inflight) < MaxInflight
            /\ msg' = ""
            /\ loading' = TRUE
            /\ live' = <<>>
            /\ inflight' = Add(inflight,
                 Pending("seasonNow", seasonNow(selectedPlace),
                         [NoCtx EXCEPT !.place = selectedPlace], "auto", 1))
    /\ UNCHANGED <<localStorage, call, route, navHasToken, tab, authMsg, recentPlaces,
                   query, matches, selectedPlace, season>>

\* seasonNow resolved with {season: s}: setSeason, then the event is logged.
SeasonNowOk(r, s) ==
    LET v == fetchJSON(JsonEnv([season |-> s])).value
    IN
    /\ r.cont = "seasonNow"
    /\ season' = IF r.orphan THEN season ELSE v.season
    /\ live' = EffectLive(season' /= season, live)
    /\ msg' = EffectMsg(season' /= season, msg)
    /\ inflight' = Add(Remove(inflight, r),
         [Pending("auto_log", logEvent("auto_season", <<r.ctx.place, v.season>>),
                  r.ctx, r.origin, r.n + 1) EXCEPT !.orphan = r.orphan])
    /\ UNCHANGED <<localStorage, call, route, navHasToken, tab, authMsg, recentPlaces,
                   query, matches, selectedPlace, loading>>

\* Mutant: the catch block also resets the season.
AutoCatchResetsSeason(r, f) ==
    /\ msg' = IF r.orphan THEN msg ELSE "Auto-detect failed: " \o MessageOf(f)
    /\ loading' = IF r.orphan THEN loading ELSE FALSE
    /\ season' = IF r.orphan THEN season ELSE ""
    /\ inflight' = Remove(inflight, r)
    /\ UNCHANGED <<localStorage, call, route, navHasToken, tab, authMsg, recentPlaces,
                   query, matches, selectedPlace, live>>

\* seasonNow or its logEvent rejected: catch, then finally.
AutoCatch(r, f) ==
    /\ msg' = IF r.orphan THEN msg ELSE "Auto-detect failed: " \o MessageOf(f)
    /\ loading' = IF r.orphan THEN loading ELSE FALSE
    /\ inflight' = Remove(inflight, r)
    /\ UNCHANGED <<localStorage, call, route, navHasToken, tab, authMsg, recentPlaces,
                   query, matches, selectedPlace, season, live>>

SeasonNowFail(r, f) ==
    /\ r.cont = "seasonNow"
    /\ AutoCatch(r, f)

\* logEvent of autoSeason resolved: finally { setLoading(false) }
AutoLogOk(r) ==
    /\ r.cont = "auto_log"
    /\ loading' = IF r.orphan THEN loading ELSE FALSE
    /\ inflight' = Remove(inflight, r)
    /\ UNCHANGED <<localStorage, call, route, navHasToken, tab, authMsg, recentPlaces,
                   query, matches, selectedPlace, season, live, msg>>

AutoLogFail(r, f) ==
    /\ r.cont = "auto_log"
    /\ AutoCatch(r, f)

\* fetchLive() up to its first await.
fetchLive ==
    /\ route = "/calendar"
    /\ IF selectedPlace = <<>>
       THEN /\ msg' = "Select a place first."
            /\ UNCHANGED <<live, loading, inflight>>
       ELSE IF season = ""
       THEN /\ msg' = "Choose a season or use Auto-detect."
            /\ UNCHANGED <<live, loading, inflight>>
       ELSE /\ Count(inflight) < MaxInflight
            /\ msg' = ""
            /\ loading' = TRUE
            /\ live' = <<>>
            /\ inflight' = Add(inflight,
                 Pending("liveCrops", liveCrops(selectedPlace, season),
                         [NoCtx EXCEPT !.place = selectedPlace, !.season = season],
                         "live", 1))
    /\ UNCHANGED <<localStorage, call, route, navHasToken, tab, authMsg, recentPlaces,
                   query, matches, selectedPlace, season>>

\* liveCrops resolved: setLive(res), then the event is logged.
LiveCropsOk(r) ==
    LET res == fetchJSON(JsonEnv(LiveResult(r.ctx.place, r.ctx.season))).value
    IN
    /\ r.cont = "liveCrops"
    /\ live' = IF r.orphan THEN live ELSE <<res>>
    /\ inflight' = Add(Remove(inflight, r),
         [Pending("live_log", logEvent("live_crops", <<r.ctx.place, r.ctx.season>>),
                  r.ctx, r.origin, r.n + 1) EXCEPT !.orphan = r.orphan])
    /\ UNCHANGED <<localStorage, call, route, navHasToken, tab, authMsg, recentPlaces,
                   query, matches, selectedPlace, season, loading, msg>>

\* liveCrops or its logEvent rejected: catch, then finally.
LiveCatch(r, f) ==
    /\ msg' = IF r.orphan THEN msg ELSE "Live crops failed: " \o MessageOf(f)
    /\ loading' = IF r.orphan THEN loading ELSE FALSE
    /\ inflight' = Remove(inflight, r)
    /\ UNCHANGED <<localStorage, call, route, navHasToken, tab, authMsg, recentPlaces,
                   query, matches, selectedPlace, season, live>>

LiveCropsFail(r, f) ==
    /\ r.cont = "liveCrops"
    /\ LiveCatch(r, f)

\* logEvent of fetchLive resolved: finally { setLoading(false) }
LiveLogOk(r) ==
    /\ r.cont = "live_log"
    /\ loading' = IF r.orphan THEN loading ELSE FALSE
    /\ inflight' = Remove(inflight, r)
    /\ UNCHANGED <<localStorage, call, route, navHasToken, tab, authMsg, recentPlaces,
                   query, matches, selectedPlace, season, live, msg>>

LiveLogFail(r, f) ==
    /\ r.cont = "live_log"
    /\ LiveCatch(r, f)

-----------------------------------------------------------------------------
(* Specifications                                                          *)

Awaited == BagToSet(inflight)

Next ==
    \/ \E url \in Routes : Startup(url)
    \/ \E to \in Routes : Go(to)
    \/ logout
    \/ \E r \in Awaited : MeOk(r)
    \/ \E r \in Awaited : MeFail(r)
    \/ \E t \in {"login", "signup"} : setTab(t)
    \/ \E kind \in {"login", "signup"} : doAuth(kind)
    \/ \E r \in Awaited, t \in Tokens : AuthOk(r, t)
    \/ \E r \in Awaited, f \in Failures : AuthFail(r, f)
    \/ \E r \in Awaited : AuthLogOk(r)
    \/ \E r \in Awaited, f \in Failures : AuthLogFail(r, f)
    \/ \E r \in Awaited : StatesOk(r)
    \/ \E r \in Awaited : StatesFail(r)
    \/ \E r \in Awaited : OpenLogSettled(r)
    \/ \E q \in Queries : searchPlaces(q)
    \/ \E r \in Awaited : GeocodeOk(r)
    \/ \E r \in Awaited, f \in Failures : GeocodeFail(r, f)
    \/ \E k \in 1..Len(matches) : pickMatch(k)
    \/ \E v \in RecentOptions : selectRecent(v)
    \/ \E s \in Seasons : setSeason(s)
    \/ autoSeason
    \/ \E r \in Awaited, s \in Seasons : SeasonNowOk(r, s)
    \/ \E r \in Awaited, f \in Failures : SeasonNowFail(r, f)
    \/ \E r \in Awaited : AutoLogOk(r)
    \/ \E r \in Awaited, f \in Failures : AutoLogFail(r, f)
    \/ fetchLive
    \/ \E r \in Awaited : LiveCropsOk(r)
    \/ \E r \in Awaited, f \in Failures : LiveCropsFail(r, f)
    \/ \E r \in Awaited : LiveLogOk(r)
    \/ \E r \in Awaited, f \in Failures : LiveLogFail(r, f)

Spec == Init /\ [][Next]_vars

NextFetch ==
    \/ \E op \in Ops : \E ab \in OpArgs(op) : ApiCall(op, ab[1], ab[2])
    \/ \E env \in Envs : ApiSettle(env)
    \/ \E t \in Tokens : StoreToken(t)
    \/ DropToken

SpecFetch == Init /\ [][NextFetch]_vars

-----------------------------------------------------------------------------
(* Claims about lib/api.js, checked under SpecFetch                        *)

Settled == call.phase = "settled"

\* The timeout timer fired before the call settled: while fetch() was pending
\* or while the body was being read.
TimerFired(env) == env.fetch = "abort" \/ (env.fetch = "response" /\ env.read = "abort")

NonOkResponse(env) == env.fetch = "response" /\ ~Ok(env.status)

HttpStatusMessage(env) == "HTTP " \o ToString(env.status)

\* C1: whenever the timer fires before the call has settled, in whichever phase,
\* the call rejects with an Error whose message is exactly "Request timed out".
C1_TimeoutRejectsTimedOut ==
    (Settled /\ TimerFired(call.env)) => call.result = Rejected("Request timed out")

\* C2 as stated: a non-2xx response rejects with the body text the server sent
\* when that text is non-empty, and with "HTTP <status>" when it is empty.
C2_NonOkMessageIsSentBody ==
    (Settled /\ NonOkResponse(call.env)) =>
        call.result = Rejected(IF call.env.text /= "" THEN call.env.text
                               ELSE HttpStatusMessage(call.env))

\* C2 amended: a non-2xx response always rejects with an Error; its message is
\* the body text when the body was read to the end and is non-empty, and
\* "HTTP <status>" when the body is empty or could not be read (the connection
\* failed, or the timer aborted the read).
C2_NonOkMessageIsReadBody ==
    (Settled /\ NonOkResponse(call.env)) =>
        call.result = Rejected(IF call.env.read = "ok" /\ call.env.text /= ""
                               THEN call.env.text
                               ELSE HttpStatusMessage(call.env))

C2_Witness ==
    /\ Settled
    /\ NonOkResponse(call.env)
    /\ call.env.read = "ok"
    /\ call.env.text = "detail"
    /\ call.result.state = "rejected"
    /\ call.result.message = "detail"

BearerOf(token) == "Bearer " \o token

CarriesBearer(c) ==
    /\ "Authorization" \in DOMAIN c.req.headers
    /\ c.req.headers["Authorization"] = BearerOf(c.tokenAtCall)

CarriesNoAuthorization(c) == "Authorization" \notin DOMAIN c.req.headers

\* C3 as stated: every operation of api carries Authorization: Bearer <token>
\* with the token stored when the call was made, and no Authorization header
\* when none was stored.
C3_EveryOperationCarriesToken ==
    call.phase /= "idle" =>
        IF Truthy(call.tokenAtCall) THEN CarriesBearer(call) ELSE CarriesNoAuthorization(call)

\* C3 amended: me and logEvent carry Authorization: Bearer <token> with the token
\* stored when the call was made, and no Authorization header when none was
\* stored; signup, login, states, geocode, seasonNow and liveCrops never carry
\* an Authorization header.
C3_OnlyMeAndLogEventCarryToken ==
    call.phase /= "idle" =>
        IF call.op \in {"me", "logEvent"} /\ Truthy(call.tokenAtCall)
        THEN CarriesBearer(call)
        ELSE CarriesNoAuthorization(call)

\* A logEvent call made under one token, the storage changed since.
C3_Witness ==
    /\ call.phase = "pending"
    /\ call.op = "logEvent"
    /\ call.tokenAtCall = "t1"
    /\ getItem("token") = "t2"
    /\ call.req.headers["Authorization"] = "Bearer t1"

-----------------------------------------------------------------------------
(* Claims about the views, checked under Spec                              *)

OnlyRemoved(r) == inflight' = Remove(inflight, r)

GeocodeInFlight == \E r \in Awaited : r.cont = "geocode"

\* The steps in which a handler runs up to its first await.
SearchStarts == \E q \in Queries : searchPlaces(q)
AuthStarts == \E kind \in {"login", "signup"} : doAuth(kind)

IsLogEvent(r) == r.req.path = "/analytics/event"

\* The step removed r and sent one request more, a logEvent.
OnlyRemovedThenLogged(r) ==
    /\ Count(inflight') = Count(inflight)
    /\ \E x \in BagToSet(inflight') : IsLogEvent(x) /\ inflight' = Add(Remove(inflight, r), x)

\* C4 as stated: neither the part of a UI action that sends the request, before
\* any response, nor its handling of a failed call changes the matches, the
\* selected season, the displayed live result, the stored token or the route;
\* a failure only shows its message.
C4_FailureLeavesStateAsBefore ==
    [][(\/ (SearchStarts \/ autoSeason \/ fetchLive \/ AuthStarts)
           /\ Count(inflight') > Count(inflight)
        \/ \E r \in Awaited, f \in Failures :
              \/ GeocodeFail(r, f) \/ SeasonNowFail(r, f) \/ AutoLogFail(r, f)
              \/ LiveCropsFail(r, f) \/ LiveLogFail(r, f)
              \/ AuthFail(r, f) \/ AuthLogFail(r, f))
       => UNCHANGED <<matches, season, live, localStorage, route>>]_vars

\* C4 amended: the handling of a failed call shows the error message, stores no
\* result and rolls nothing back: it leaves the query, the selected place, the
\* selected season, the displayed live result, the stored token and the route
\* as they are at that moment (so what was stored after a first successful
\* call stays when the following logEvent fails), and shows nothing when its
\* component is unmounted.  State does change without a successful response: a
\* failed search empties the matches, a search sets the query (and empties the
\* matches of a too-short query) before any response, and autoSeason and
\* fetchLive empty the live result and the message before the request is sent.
C4_FailureShowsMessageAndRollsNothingBack ==
    [][/\ \A r \in Awaited, f \in Failures :
            /\ GeocodeFail(r, f) =>
                 /\ UNCHANGED <<query, selectedPlace, season, live, localStorage, route>>
                 /\ IF r.orphan THEN UNCHANGED <<matches, msg>>
                    ELSE matches' = <<>> /\ msg' = f.message
            /\ (SeasonNowFail(r, f) \/ AutoLogFail(r, f)) =>
                 /\ UNCHANGED <<query, matches, selectedPlace, season, live, localStorage, route>>
                 /\ IF r.orphan THEN UNCHANGED msg
                    ELSE msg' = "Auto-detect failed: " \o f.message
            /\ (LiveCropsFail(r, f) \/ LiveLogFail(r, f)) =>
                 /\ UNCHANGED <<query, matches, selectedPlace, season, live, localStorage, route>>
                 /\ IF r.orphan THEN UNCHANGED msg
                    ELSE msg' = "Live crops failed: " \o f.message
            /\ (AuthFail(r, f) \/ AuthLogFail(r, f)) =>
                 /\ UNCHANGED <<calendarVars, localStorage, route>>
                 /\ IF r.orphan THEN UNCHANGED authMsg
                    ELSE authMsg' = "Error: " \o f.message
       /\ SearchStarts =>
            /\ UNCHANGED <<selectedPlace, season, live, msg, localStorage, route>>
            /\ matches' = IF Len(trim(query')) < 2 THEN <<>> ELSE matches
       /\ (autoSeason \/ fetchLive) =>
            /\ UNCHANGED <<query, matches, selectedPlace, season, localStorage, route>>
            /\ IF Count(inflight') > Count(inflight)
               THEN live' = <<>> /\ msg' = ""
               ELSE UNCHANGED live
       /\ AuthStarts => UNCHANGED <<calendarVars, localStorage, route>>
      ]_vars

\* A failed search shown while a place, a season and a live result stay.
C4_Witness ==
    /\ route = "/calendar"
    /\ msg = "Request timed out"
    /\ matches = <<>>
    /\ selectedPlace /= <<>>
    /\ season /= ""
    /\ live /= <<>>

\* C5: a new search cancels no request in flight, and the response to a geocode
\* request whose query is no longer the one in the field is stored all the
\* same: the matches become those of the earlier query while the field keeps
\* the later one.
C5_StaleGeocodeOverwrites ==
    [][/\ SearchStarts => \A r \in Awaited : CopiesIn(r, inflight') >= CopiesIn(r, inflight)
       /\ \A r \in Awaited :
            (GeocodeOk(r) /\ ~r.orphan /\ QueryOf(r.req) /= trim(query)) =>
                /\ matches' = Geocode(QueryOf(r.req))
                /\ query' = query
      ]_vars

\* Both searches answered, no place ever selected since the mount: the field
\* shows the later query, the list the matches of the earlier one.
C5_Witness ==
    /\ route = "/calendar"
    /\ recentPlaces = <<>>
    /\ selectedPlace = <<>>
    /\ query = Pune
    /\ matches = Geocode(Guntur)
    /\ ~GeocodeInFlight

\* C6 as stated: no UI action triggers a second request.
C6_AtMostOneRequestPerAction == \A r \in Awaited : r.n <= 1

\* C6 amended: a UI action triggers at most two requests, and the second is
\* always a logEvent: startup at most one (me); opening Calendar two (states,
\* logEvent); an edit of the search field at most one (geocode); Auto-detect,
\* View Live Crops, Login and Create Account one, and a logEvent once that one
\* succeeded; selecting a match or a recent place, choosing a season and
\* Logout none.  Loading the page at /calendar is startup and opening Calendar
\* at once: up to three requests.
C6_RequestsPerAction ==
    [][/\ \A r \in BagToSet(inflight') :
            /\ r.origin \in {"startup", "open_calendar", "search", "auto", "live",
                             "login", "signup"}
            /\ r.n \in {1, 2}
            /\ r.n = 2 => IsLogEvent(r)
            /\ r.origin \in {"startup", "search"} => r.n = 1
       /\ \A url \in Routes :
            Startup(url) => Count(inflight') <= (IF url = "/calendar" THEN 3 ELSE 1)
       /\ ~(\E url \in Routes : Startup(url)) => Count(inflight') <= Count(inflight) + 2
       /\ ((\E k \in 1..Len(matches) : pickMatch(k))
           \/ (\E v \in RecentOptions : selectRecent(v))
           \/ (\E s \in Seasons : setSeason(s))
           \/ logout)
          => Count(inflight') = Count(inflight)
      ]_vars

\* The logEvent of a successful login is in flight: the action's second request.
C6_Witness ==
    \E r \in Awaited : r.cont = "auth_log" /\ r.origin = "login" /\ r.n = 2 /\ ~r.orphan

\* C7: a failed logEvent does not block the flow of its caller: after a
\* successful login or signup the user is taken to /calendar and sees no error,
\* and after a successful seasonNow or liveCrops no failure message is shown.
C7_LogEventFailureDoesNotBlock ==
    [][\A r \in Awaited, f \in Failures :
         /\ (AuthLogFail(r, f) /\ ~r.orphan) => (route' = "/calendar" /\ authMsg' = "")
         /\ (AutoLogFail(r, f) /\ ~r.orphan) => msg' /= "Auto-detect failed: " \o f.message
         /\ (LiveLogFail(r, f) /\ ~r.orphan) => msg' /= "Live crops failed: " \o f.message
      ]_vars

\* C8: the stored token changes only by a successful signup or login (set to
\* the issued access_token), by logout (removed) and by a failed startup me()
\* (removed); every other step leaves it as it is.
C8_TokenChangesOnlyByAuthLogoutMe ==
    [][localStorage' /= localStorage =>
         \/ \E r \in Awaited, t \in Tokens :
              /\ r.cont = "auth" /\ r.req.path \in {"/auth/login", "/auth/signup"}
              /\ OnlyRemovedThenLogged(r)
              /\ getItem("token")' = t
         \/ /\ navHasToken /\ route' = "/"
            /\ getItem("token")' = null
            /\ Count(inflight') = Count(inflight)
         \/ \E r \in Awaited :
              /\ r.cont = "me" /\ r.origin = "startup" /\ r.req.path = "/me"
              /\ OnlyRemoved(r)
              /\ getItem("token")' = null
      ]_vars

\* A token stored by a login made without one: Navbar has not rendered since.
C8_Witness ==
    /\ route = "/auth"
    /\ ~navHasToken
    /\ Truthy(getItem("token"))
    /\ \E r \in Awaited : r.cont = "auth_log" /\ ~r.orphan

\* C9: a failed startup me() removes only the token it was sent with: when
\* another token has been stored meanwhile, that token stays.
C9_MeFailureKeepsNewerToken ==
    [][\A r \in Awaited :
         (/\ MeFail(r)
          /\ Truthy(getItem("token"))
          /\ r.req.headers["Authorization"] /= BearerOf(getItem("token")))
         => localStorage' = localStorage
      ]_vars

\* C10: a displayed live result was fetched for the selected place and season.
C10_LiveIsForSelection ==
    (route = "/calendar" /\ live /= <<>>) =>
        (live[1].state = selectedPlace /\ live[1].season = season)

====
